---- MODULE Spec2Model ----
(***************************************************************************)
(* Annealed Langevin sampler, src/score/annealed_langevin.py.              *)
(*                                                                         *)
(* sample_anneal_langevin(x, score_nn, sigmas, eps, T) is modelled as a    *)
(* state machine whose positions are the lines of the function.  Tensor    *)
(* elements are extended rationals <<n, d>>: d > 0 is the number n/d,      *)
(* <<1,0>> and <<-1,0>> are +inf and -inf, <<0,0>> is NaN.  A tensor of    *)
(* shape [batch, 1, 1, 1] is a sequence of batch elements.  Tensors live   *)
(* in a heap of objects; names (the caller's x, the local x, the entries   *)
(* of the samples list) hold references into it.                           *)
(***************************************************************************)
EXTENDS Integers, Sequences, FiniteSets, TLC

(* ------------------------------ bounds -------------------------------- *)
\* longest noise schedule tried
MaxL == 2
\* largest inner count T tried
MaxT == 2
\* most inner steps L * T of one call
MaxSteps == 4
\* most inner steps L * T of each of two concurrent calls
MaxSteps2 == 2

(* ---------------------- extended rational numbers ---------------------- *)
Abs(n) == IF n < 0 THEN -n ELSE n

Sign(n) == IF n < 0 THEN -1 ELSE IF n = 0 THEN 0 ELSE 1

RECURSIVE GCD(_, _)
GCD(a, b) == IF b = 0 THEN a ELSE GCD(b, a % b)

NaN == <<0, 0>>

\* the value n/d in lowest terms, d >= 0; n/0 is an infinity or NaN
Norm(n, d) ==
    IF d = 0 THEN <<Sign(n), 0>>
    ELSE LET g == GCD(Abs(n), Abs(d))
             s == Sign(d)
         IN  <<(s * n) \div g, (s * d) \div g>>

Q(n, d) == Norm(n, d)

IsNaN(a) == a = NaN

IsFinite(a) == a[2] > 0

Add(a, b) ==
    IF a[2] = 0 /\ b[2] = 0
    THEN (IF a = b THEN a ELSE NaN)
    ELSE Norm(a[1] * b[2] + b[1] * a[2], a[2] * b[2])

Mul(a, b) == Norm(a[1] * b[1], a[2] * b[2])

Div(a, b) ==
    LET s == IF b[1] < 0 THEN -1 ELSE 1
    IN  Norm(a[1] * b[2] * s, a[2] * Abs(b[1]))

\* a <= b for operands that are not NaN
Le(a, b) ==
    IF a[2] = 0 /\ b[2] = 0 THEN a[1] <= b[1]
    ELSE a[1] * b[2] <= b[1] * a[2]

Min(a, b) == IF Le(a, b) THEN a ELSE b

Max(a, b) == IF Le(a, b) THEN b ELSE a

\* largest k with k * k <= n
ISqrt(n) == CHOOSE k \in 0..n : k * k <= n /\ (k + 1) * (k + 1) > n

\* square root; exact when numerator and denominator are squares
Sqrt(a) ==
    IF a[1] < 0 THEN NaN ELSE Norm(ISqrt(a[1]), ISqrt(a[2]))

(* ------------------------------ tensors -------------------------------- *)
\* a clamp that forgets the lower end
ClampUpperOnly(v, lo, hi) == IF IsNaN(v) THEN v ELSE Min(v, hi)

\* torch.clamp on one element: NaN is propagated, everything else is cut
Clamp(v, lo, hi) == IF IsNaN(v) THEN v ELSE Min(Max(v, lo), hi)

\* torch.clamp(x, -1.0, 1.0).to('cpu'): a new tensor
ClampTensor(xv) == [b \in DOMAIN xv |-> Clamp(xv[b], Q(-1, 1), Q(1, 1))]

\* torch.ones(size=(x.size(dim=0),)) * label, as long
Labels(xv, label) == [b \in 1..Len(xv) |-> label]

\* the labels themselves handed on, not the noise levels they select
UsedLabels(sg, labels) == [b \in DOMAIN labels |-> Q(labels[b], 1)]

\* sigmas[labels].view(-1, 1, 1, 1); the schedule is indexed from 0
UsedSigmas(sg, labels) == [b \in DOMAIN labels |-> sg[labels[b] + 1]]

\* a step size linear in sigma / sigmas[-1]
StepSizeLinear(e, sigma, sg) == Mul(e, Div(sigma, sg[Len(sg)]))

\* eps * (sigma / sigmas[-1]) ** 2
StepSize(e, sigma, sg) ==
    LET r == Div(sigma, sg[Len(sg)]) IN Mul(e, Mul(r, r))

\* the noise scale added to the draw, not multiplied with it
NoiseShifted(n, step) == [b \in DOMAIN n |-> Add(n[b], Sqrt(Mul(Q(2, 1), step)))]

\* torch.randn_like(x) * torch.tensor(torch.sqrt(2 * step_size)), n the draw
Noise(n, step) == [b \in DOMAIN n |-> Mul(n[b], Sqrt(Mul(Q(2, 1), step)))]

\* the update without the sample it starts from
LangevinDropX(xv, step, score, z) ==
    [b \in DOMAIN xv |-> Add(Mul(step, score[b]), z[b])]

\* the update applied to the clamped sample
LangevinClamped(xv, step, score, z) ==
    [b \in DOMAIN xv |->
        Add(Add(Clamp(xv[b], Q(-1, 1), Q(1, 1)), Mul(step, score[b])), z[b])]

\* x + step_size * score + z
Langevin(xv, step, score, z) ==
    [b \in DOMAIN xv |-> Add(Add(xv[b], Mul(step, score[b])), z[b])]

(* ------------------------------- inputs -------------------------------- *)
\* elements of the initial samples
XVals == {Q(-2, 1), Q(1, 2), NaN, Q(1, 0)}

\* the initial batches x tried: batch sizes 1 and 2
XInputs == {<<v>> : v \in XVals} \cup {<<Q(0, 1), Q(0, 1)>>, <<Q(3, 1), Q(-1, 2)>>}

\* noise levels
SigmaVals == {Q(1, 1), Q(2, 1)}

RECURSIVE SeqsUpTo(_, _)
SeqsUpTo(S, n) ==
    IF n = 0 THEN {<<>>}
    ELSE LET P == SeqsUpTo(S, n - 1)
         IN  P \cup {Append(p, v) : p \in {q \in P : Len(q) = n - 1}, v \in S}

\* step size constants; 2 * eps is a square, so the noise scale is exact
EpsVals == {Q(1, 2), Q(2, 1)}

\* what one element of torch.randn_like may come out as
RandnVals == {Q(0, 1), Q(1, 1)}

\* what one element of the score network's output may be
ScoreVals == {Q(0, 1), Q(-1, 1), NaN}

\* the draws of torch.randn_like(x) tried: v, -v, v, ... along the batch
RandnLike(xv) ==
    {[b \in 1..Len(xv) |-> IF b % 2 = 1 THEN v ELSE Mul(Q(-1, 1), v)] : v \in RandnVals}

\* the outputs of the score network tried: the same value for each element
ScoreOutputs(xv) == {[b \in 1..Len(xv) |-> v] : v \in ScoreVals}

(* ------------------------------- state --------------------------------- *)
VARIABLES
    heap,      \* tensor objects: reference -> value
    sigmas,    \* argument sigmas, the noise schedule
    eps,       \* argument eps
    T,         \* argument T
    scoreTab,  \* the graph of score_nn as far as it has been evaluated
    frame,     \* one activation of sample_anneal_langevin per call
    given      \* the values of x and sigmas when the calls were made

vars == <<heap, sigmas, eps, T, scoreTab, frame, given>>

\* the tensor the caller passes as x: object 1 of the caller, who is call 0
XArg == <<0, 1>>

\* a name that is not bound yet
None == <<>>

\* a reference no object of call c has yet
NewRef(h, c) == <<c, 1 + Cardinality({r \in DOMAIN h : r[1] = c})>>

\* an inner loop body that records the sample after updating it
BodyUpdateFirst == <<"noise", "score", "update", "snap">>

\* the order of the statements of the inner loop body (lines 25, 27, 29, 30)
Body == <<"snap", "noise", "score", "update">>

\* the position after position p of the inner loop
After(p) ==
    IF p = "inner" THEN Body[1]
    ELSE LET k == CHOOSE j \in 1..Len(Body) : Body[j] = p
         IN  IF k = Len(Body) THEN "inner" ELSE Body[k + 1]

\* the activation of a call that has just been entered: samples = []
Entered ==
    [pc |-> "level", it |-> 0, label |-> None, sigma |-> None,
     labels |-> None, used_sigmas |-> None, step_size |-> None,
     t |-> 0, x |-> XArg, z |-> None, score |-> None,
     samples |-> <<>>, returned |-> FALSE, result |-> None,
     raised |-> "none", exc |-> "none",
     \* history: what randn_like returned, the values of z, what score_nn
     \* was given, the level and step size of each update, what x has been
     \* bound to, the number of reads of sigmas[-1]
     draws |-> <<>>, zs |-> <<>>, asked |-> <<>>, steps |-> <<>>,
     bound |-> <<XArg>>, lastReads |-> 0]

InitArgs(Xs, Sgs, Es, maxT, maxSteps) ==
    /\ \E xv \in Xs : /\ heap = (XArg :> xv)
                      /\ \E sg \in Sgs :
                            /\ sigmas = sg
                            /\ given = [x |-> xv, sigmas |-> sg]
    /\ eps \in Es
    /\ T \in 0..maxT
    /\ Len(sigmas) * T <= maxSteps
    /\ scoreTab = <<>>

Init ==
    /\ InitArgs(XInputs, SeqsUpTo(SigmaVals, MaxL), EpsVals, MaxT, MaxSteps)
    /\ frame = (1 :> Entered)

Set(c, f) == frame' = [frame EXCEPT ![c] = f]

(* ------------------------------ actions -------------------------------- *)
\* line 17, the schedule has another element: lines 18 to 22
EnterLevel(c) ==
    LET f == frame[c] IN
    /\ f.pc = "level"
    /\ f.it < Len(sigmas)
    /\ LET lab == Labels(heap[f.x], f.it)
           sig == sigmas[f.it + 1]
       IN  Set(c, [f EXCEPT !.pc = "inner", !.it = f.it + 1, !.label = f.it,
                            !.sigma = sig, !.labels = lab,
                            !.used_sigmas = UsedSigmas(sigmas, lab),
                            !.step_size = StepSize(eps, sig, sigmas),
                            !.lastReads = f.lastReads + 1,
                            !.t = 0])
    /\ UNCHANGED <<heap, sigmas, eps, T, scoreTab, given>>

\* line 17, the schedule is exhausted: line 32
Return(c) ==
    LET f == frame[c] IN
    /\ f.pc = "level"
    /\ f.it = Len(sigmas)
    /\ Set(c, [f EXCEPT !.pc = "done", !.returned = TRUE, !.result = f.samples])
    /\ UNCHANGED <<heap, sigmas, eps, T, scoreTab, given>>

\* a range that runs one step too far
InRangeInclusive(t, n) == t <= n

\* t in range(n)
InRange(t, n) == t < n

\* line 24: range(T) gives the next t, or is exhausted
InnerLoop(c) ==
    LET f == frame[c] IN
    /\ f.pc = "inner"
    /\ Set(c, IF InRange(f.t, T) THEN [f EXCEPT !.pc = After("inner")]
                         ELSE [f EXCEPT !.pc = "level"])
    /\ UNCHANGED <<heap, sigmas, eps, T, scoreTab, given>>

\* line 25: samples.append(torch.clamp(x, -1.0, 1.0).to('cpu'))
Snapshot(c) ==
    LET f == frame[c]
        r == NewRef(heap, c)
    IN
    /\ f.pc = "snap"
    /\ heap' = (r :> ClampTensor(heap[f.x])) @@ heap
    /\ Set(c, [f EXCEPT !.pc = After("snap"), !.samples = Append(f.samples, r)])
    /\ UNCHANGED <<sigmas, eps, T, scoreTab, given>>

\* line 27: z = torch.randn_like(x) * sqrt(2 * step_size)
DrawNoise(c) ==
    LET f == frame[c] IN
    /\ f.pc = "noise"
    /\ \E n \in RandnLike(heap[f.x]) :
          Set(c, [f EXCEPT !.pc = After("noise"), !.z = Noise(n, f.step_size),
                           !.draws = Append(f.draws, n),
                           !.zs = Append(f.zs, Noise(n, f.step_size))])
    /\ UNCHANGED <<heap, sigmas, eps, T, scoreTab, given>>

\* line 29: score = score_nn(x, used_sigmas), score_nn returns
EvalScore(c) ==
    LET f == frame[c]
        arg == <<heap[f.x], f.used_sigmas>>
    IN
    /\ f.pc = "score"
    /\ \E out \in ScoreOutputs(heap[f.x]) :
          /\ IF arg \in DOMAIN scoreTab
             THEN out = scoreTab[arg] /\ UNCHANGED scoreTab
             ELSE scoreTab' = (arg :> out) @@ scoreTab
          /\ Set(c, [f EXCEPT !.pc = After("score"), !.score = out,
                              !.asked = Append(f.asked, arg)])
    /\ UNCHANGED <<heap, sigmas, eps, T, given>>

\* the update written into the tensor x names (x += ...)
RebindInPlace(h, c, xref, val) == [heap |-> [h EXCEPT ![xref] = val], x |-> xref]

\* the binding x = <value>: a new tensor object, the name x moved to it
Rebind(h, c, xref, val) ==
    LET r == NewRef(h, c) IN [heap |-> (r :> val) @@ h, x |-> r]

\* line 30: x = x + step_size * score + z
Update(c) ==
    LET f == frame[c]
        b == Rebind(heap, c, f.x, Langevin(heap[f.x], f.step_size, f.score, f.z))
    IN
    /\ f.pc = "update"
    /\ heap' = b.heap
    /\ Set(c, [f EXCEPT !.pc = After("update"), !.x = b.x, !.t = f.t + 1,
                        !.steps = Append(f.steps, <<f.label, f.step_size>>),
                        !.bound = Append(f.bound, b.x)])
    /\ UNCHANGED <<sigmas, eps, T, scoreTab, given>>

\* the failures score_nn may end with
Errors == {"RuntimeError", "ValueError"}

\* the failure noted and the score network called again
Retry(f, e) == [f EXCEPT !.raised = e]

\* no try statement encloses line 29: the exception leaves the call as it is
Propagate(f, e) == [f EXCEPT !.pc = "failed", !.raised = e, !.exc = e]

\* line 29: score_nn raises e
ScoreRaise(c) ==
    LET f == frame[c] IN
    /\ f.pc = "score"
    /\ \E e \in Errors : Set(c, Propagate(f, e))
    /\ UNCHANGED <<heap, sigmas, eps, T, scoreTab, given>>

Next ==
    \/ \E c \in DOMAIN frame : EnterLevel(c)
    \/ \E c \in DOMAIN frame : Return(c)
    \/ \E c \in DOMAIN frame : InnerLoop(c)
    \/ \E c \in DOMAIN frame : Snapshot(c)
    \/ \E c \in DOMAIN frame : DrawNoise(c)
    \/ \E c \in DOMAIN frame : EvalScore(c)
    \/ \E c \in DOMAIN frame : Update(c)

Spec == Init /\ [][Next]_vars

\* the same call with a score network that may fail
NextFail == Next \/ \E c \in DOMAIN frame : ScoreRaise(c)

SpecFail == Init /\ [][NextFail]_vars

\* two calls given the same arguments, their steps interleaved
XInputs2 == {<<Q(-2, 1)>>, <<Q(1, 2), NaN>>}

\* the strictly decreasing schedules
Decreasing(Sgs) ==
    {sg \in Sgs : \A i \in 1..Len(sg) - 1 : ~Le(sg[i], sg[i + 1])}

Init2 ==
    /\ InitArgs(XInputs2, Decreasing(SeqsUpTo(SigmaVals, MaxSteps2)), {Q(1, 2)},
                MaxSteps2, MaxSteps2)
    /\ frame = (1 :> Entered) @@ (2 :> Entered)

Spec2 == Init2 /\ [][Next]_vars

(* ------------------------------ properties ----------------------------- *)
Calls == DOMAIN frame

L == Len(sigmas)

\* the value of the k-th snapshot of call c
Snap(c, k) == heap[frame[c].samples[k]]

\* the value x had in call c after k updates
XAfter(c, k) == heap[frame[c].bound[k + 1]]

InUnit(v) == ~IsNaN(v) /\ Le(Q(-1, 1), v) /\ Le(v, Q(1, 1))

Zeros(t) == \A b \in DOMAIN t : t[b] = Q(0, 1)

\* the call has not failed, and its loops are within their ranges
RunsOn(c) ==
    LET f == frame[c] IN
    /\ f.pc # "failed" /\ f.exc = "none"
    /\ f.it <= L /\ f.t <= T /\ Len(f.samples) <= L * T
    /\ f.returned <=> f.pc = "done"

\* the noise scale sqrt(2 * step_size) is exact on the inputs tried
SqrtExact ==
    \A c \in Calls : \A k \in 1..Len(frame[c].steps) :
        LET a == Mul(Q(2, 1), frame[c].steps[k][2])
        IN  Mul(Sqrt(a), Sqrt(a)) = a

\* C1 as stated: every call runs to its return without an error and returns
\* exactly L * T snapshots; with an empty schedule or T = 0 the result is
\* empty, sigmas[-1] is never evaluated and the score function never called.
C1_AsStated ==
    \A c \in Calls :
        LET f == frame[c] IN
        /\ RunsOn(c)
        /\ f.returned => Len(f.result) = L * T
        /\ (L = 0 \/ T = 0) =>
              /\ f.returned => f.result = <<>>
              /\ f.lastReads = 0
              /\ f.asked = <<>>

\* C1 amended: every call runs to its return without an error and returns
\* exactly L * T snapshots; with an empty schedule or T = 0 the result is
\* empty and the score function is never called; sigmas[-1] is never
\* evaluated when the schedule is empty, and is evaluated once for each level
\* entered otherwise, also when T = 0.
C1_SnapshotCount ==
    \A c \in Calls :
        LET f == frame[c] IN
        /\ RunsOn(c)
        /\ f.returned => Len(f.result) = L * T
        /\ f.lastReads = f.it
        /\ f.returned => f.lastReads = L
        /\ (L = 0 \/ T = 0) =>
              /\ f.returned => f.result = <<>>
              /\ f.asked = <<>>

\* a call with T = 0 over two levels has returned, having read sigmas[-1] twice
C1_Witness ==
    /\ frame[1].returned /\ T = 0 /\ L = 2
    /\ frame[1].result = <<>> /\ frame[1].lastReads = 2

\* C2 as stated: every element of every snapshot recorded so far lies in
\* [-1, 1], whatever the input, the score function and the noise are.
C2_AsStated ==
    \A c \in Calls : \A k \in 1..Len(frame[c].samples) :
        \A b \in DOMAIN Snap(c, k) : InUnit(Snap(c, k)[b])

\* C2 amended: every element of every snapshot recorded so far is NaN or lies
\* in [-1, 1], and it is NaN exactly when that element of the working sample
\* was NaN when the snapshot was taken.
C2_ClampedOrNaN ==
    \A c \in Calls : \A k \in 1..Len(frame[c].samples) :
        \A b \in DOMAIN Snap(c, k) :
            /\ IsNaN(Snap(c, k)[b]) \/ InUnit(Snap(c, k)[b])
            /\ IsNaN(Snap(c, k)[b]) <=> IsNaN(XAfter(c, k - 1)[b])

\* a snapshot within [-1, 1] was taken of a working sample that had left it
C2_Witness ==
    \E k \in 2..Len(frame[1].samples) : \E b \in DOMAIN Snap(1, k) :
        /\ InUnit(Snap(1, k)[b])
        /\ IsFinite(XAfter(1, k - 1)[b]) /\ ~InUnit(XAfter(1, k - 1)[b])

\* C3: the k-th call of the score function is given, for each batch element,
\* the value of the noise level (k - 1) div T of the schedule, and a call that
\* has returned has made exactly L * T calls of the score function.
C3_ScheduleOrder ==
    \A c \in Calls :
        LET f == frame[c] IN
        /\ \A k \in 1..Len(f.asked) :
              /\ Len(f.asked[k][2]) = Len(given.x)
              /\ \A b \in DOMAIN f.asked[k][2] :
                    f.asked[k][2][b] = given.sigmas[((k - 1) \div T) + 1]
        /\ f.returned => Len(f.asked) = L * T

\* a call over two different levels, two steps each, on a batch of two
C3_Witness ==
    /\ frame[1].returned /\ L = 2 /\ T = 2 /\ sigmas[1] # sigmas[2]
    /\ Len(given.x) = 2 /\ Len(frame[1].asked) = 4

\* C4: every update of level i uses the step size eps * (sigmas[i] /
\* sigmas[last])^2; the step sizes of two levels are in the ratio of the
\* squares of their noise levels, and the last level's step size is eps.
C4_StepSize ==
    \A c \in Calls :
        LET f == frame[c]
            sq(a) == Mul(a, a)
            last == sigmas[L]
        IN  \A k \in 1..Len(f.steps) :
              LET i == f.steps[k][1]
                  si == f.steps[k][2]
              IN  /\ i = (k - 1) \div T
                  /\ Mul(si, sq(last)) = Mul(eps, sq(sigmas[i + 1]))
                  /\ i = L - 1 => si = eps
                  /\ \A m \in 1..k :
                        Div(si, f.steps[m][2])
                            = sq(Div(sigmas[i + 1], sigmas[f.steps[m][1] + 1]))

\* two levels with different noise levels, two updates each
C4_Witness ==
    /\ frame[1].returned /\ L = 2 /\ T = 2 /\ sigmas[1] # sigmas[2]
    /\ frame[1].steps[1][2] # frame[1].steps[4][2]

\* C5: as long as the score function has returned only zeros and every noise
\* z was zero, the working sample is the input and every snapshot is the
\* input clamped; a call that has returned holds L * T such snapshots.
C5_ZeroScoreZeroNoise ==
    \A c \in Calls :
        LET f == frame[c] IN
        ( /\ \A a \in DOMAIN scoreTab : Zeros(scoreTab[a])
          /\ \A k \in 1..Len(f.zs) : Zeros(f.zs[k]) )
        => /\ heap[f.x] = given.x
           /\ \A k \in 1..Len(f.samples) : Snap(c, k) = ClampTensor(given.x)
           /\ f.returned => Len(f.result) = L * T

\* four steps with zero score and zero noise from an input outside [-1, 1]
C5_Witness ==
    /\ frame[1].returned /\ Len(frame[1].result) = 4
    /\ \A a \in DOMAIN scoreTab : Zeros(scoreTab[a])
    /\ \A k \in 1..Len(frame[1].zs) : Zeros(frame[1].zs[k])
    /\ given.x = <<Q(3, 1), Q(-1, 2)>>
    /\ Snap(1, 4) = <<Q(1, 1), Q(-1, 2)>>

\* C6: no step of a call changes the tensor the caller passed as x or the
\* schedule, which stay as they were given, and no step changes a snapshot
\* that is already in the samples list.
C6_NoSideEffects ==
    [][ /\ heap'[XArg] = heap[XArg] /\ heap'[XArg] = given.x
        /\ sigmas' = sigmas /\ sigmas' = given.sigmas
        /\ \A c \in Calls : \A k \in 1..Len(frame[c].samples) :
              /\ k <= Len(frame'[c].samples)
              /\ frame'[c].samples[k] = frame[c].samples[k]
              /\ heap'[frame'[c].samples[k]] = heap[frame[c].samples[k]] ]_vars

\* the call has returned, its working sample differs from the caller's tensor
C6_Witness ==
    /\ frame[1].returned /\ Len(frame[1].result) = 4
    /\ heap[frame[1].x] # heap[XArg]
    /\ heap[XArg] = given.x
    /\ Snap(1, 1) # Snap(1, 4)

\* C7: when the score function fails, the call ends in that step with the
\* same failure, holding one snapshot and one noise draw more than completed
\* score calls, and from then on the score function is not called, no noise
\* is drawn, no snapshot is appended and nothing is returned.
C7_FailureIsFatal ==
    [][ \A c \in Calls :
          /\ (frame[c].raised = "none" /\ frame'[c].raised # "none") =>
                /\ frame'[c].pc = "failed"
                /\ frame'[c].exc = frame'[c].raised
                /\ Len(frame'[c].samples) = Len(frame'[c].asked) + 1
                /\ Len(frame'[c].draws) = Len(frame'[c].asked) + 1
                /\ frame'[c].asked = frame[c].asked
                /\ ~frame'[c].returned /\ frame'[c].result = None
          /\ frame[c].raised # "none" =>
                /\ frame'[c].asked = frame[c].asked
                /\ frame'[c].draws = frame[c].draws
                /\ frame'[c].samples = frame[c].samples
                /\ frame'[c].exc = frame[c].raised
                /\ ~frame'[c].returned /\ frame'[c].result = None ]_vars

\* the score function failed at the third inner step of a call
C7_Witness ==
    /\ frame[1].pc = "failed" /\ frame[1].exc = "ValueError"
    /\ Len(frame[1].samples) = 3 /\ Len(frame[1].asked) = 2
    /\ ~frame[1].returned

\* C8: two calls given the same arguments that have drawn the same noise
\* return equal lists of snapshots, however their steps were interleaved.
C8_Determinism ==
    (/\ 1 \in Calls /\ 2 \in Calls
     /\ frame[1].returned /\ frame[2].returned
     /\ frame[1].draws = frame[2].draws)
    => /\ Len(frame[1].result) = Len(frame[2].result)
       /\ \A k \in 1..Len(frame[1].result) :
             heap[frame[1].result[k]] = heap[frame[2].result[k]]

\* two calls drew the same noise, not all zero, and returned two snapshots
\* each, the second unlike the first
C8_Witness ==
    /\ frame[1].returned /\ frame[2].returned
    /\ frame[1].draws = frame[2].draws
    /\ Len(frame[1].result) = 2
    /\ \E k \in 1..Len(frame[1].draws) : ~Zeros(frame[1].draws[k])
    /\ Snap(1, 1) # Snap(1, 2)
    /\ Snap(2, 2) = Snap(1, 2)

\* C9: the k-th snapshot (from 0) is the clamp of the working sample after
\* exactly k updates, taken before the noise draw, the score call and the
\* update of its iteration; snapshot 0 is the clamped input, and a call that
\* has returned holds one snapshot for each update but the last: none of the
\* sample the last update produced.
C9_SnapshotBeforeUpdate ==
    \A c \in Calls :
        LET f == frame[c]
            n == Len(f.samples)
        IN  /\ \A k \in 1..n : Snap(c, k) = ClampTensor(XAfter(c, k - 1))
            /\ n >= 1 => Snap(c, 1) = ClampTensor(given.x)
            /\ Len(f.draws) <= n /\ Len(f.asked) <= Len(f.draws)
            /\ Len(f.steps) <= Len(f.asked) /\ n <= Len(f.steps) + 1
            /\ f.returned => /\ Len(f.result) = Len(f.steps)
                             /\ Len(f.bound) = Len(f.result) + 1

\* a call returned two snapshots or more and its last sample, clamped, is
\* none of them
C9_Witness ==
    /\ frame[1].returned /\ Len(frame[1].result) >= 2
    /\ \A k \in 1..Len(frame[1].result) :
          Snap(1, k) # ClampTensor(heap[frame[1].x])
    /\ Snap(1, 1) # Snap(1, 2)

\* C10: the score function is given the working sample as it is, not its
\* clamp, and each update is x + step_size * score + z of that sample, so
\* that the samples follow from the input, the scores and the noise alone.
C10_UnclampedIteration ==
    \A c \in Calls :
        LET f == frame[c] IN
        /\ \A k \in 1..Len(f.asked) : f.asked[k][1] = XAfter(c, k - 1)
        /\ \A k \in 1..Len(f.steps) :
              LET xv == XAfter(c, k - 1)
                  sc == scoreTab[f.asked[k]]
              IN  XAfter(c, k) =
                     [b \in DOMAIN xv |->
                         Add(Add(xv[b], Mul(f.steps[k][2], sc[b])), f.zs[k][b])]

\* the score function was given a sample outside [-1, 1], which was updated
\* to another sample outside [-1, 1]
C10_Witness ==
    \E k \in 1..Len(frame[1].steps) : \E b \in DOMAIN XAfter(1, k) :
        /\ IsFinite(XAfter(1, k - 1)[b]) /\ ~InUnit(XAfter(1, k - 1)[b])
        /\ IsFinite(XAfter(1, k)[b]) /\ ~InUnit(XAfter(1, k)[b])
        /\ XAfter(1, k)[b] # XAfter(1, k - 1)[b]
        /\ frame[1].asked[k][1] = XAfter(1, k - 1)

====
